---- MODULE Spec2Model ----
(***************************************************************************)
(* The multi-length combined-batch training loop of riser/train.py: the    *)
(* epoch driver (main), one training epoch (train) and one validation      *)
(* epoch (validate) over a CombinedLoader in "max_size" mode.              *)
(*                                                                         *)
(* Tensors are abstracted: a batch is (index in its loader, number of      *)
(* examples); the loss of a forward pass and the number of correct         *)
(* predictions of a batch are inputs drawn from small sets; the model      *)
(* parameters are identified by where they came from and how many          *)
(* optimizer steps were applied to them.  Python's float division is       *)
(* modelled as exact rational division (numerator over denominator).       *)
(***************************************************************************)
EXTENDS Integers, Sequences, FiniteSets

\* ---------------------------------------------------------------- bounds
MaxSamples == 3       \* largest dataset size of one bucket
MaxEpochs == 3        \* largest config.n_epochs / start_epoch

BatchSizes == {1, 2}  \* values of config.batch_size
Losses == {1, 2}      \* values of loss.item() of one forward pass
LogFreqs == {2}       \* values of train's log_freq

\* ---------------------------------------------------------------- data
Buckets == {"2s", "3s", "4s"}

BaseLengths == <<"2s", "3s", "4s">>

NoBatch == [k |-> 0, len |-> 0]

NoFile == [origin |-> "none", steps |-> 0]

InitialParams == [origin |-> "init", steps |-> 0]

CheckpointParams == [origin |-> "checkpoint", steps |-> 0]

\* ------------------------------------------------------------ arithmetic
Div(a, b) == [num |-> a, den |-> b]

Times(x, n) == [num |-> x.num * n, den |-> x.den]

Greater(x, y) == x.num * y.den > y.num * x.den

Same(x, y) == x.num * y.den = y.num * x.den

Zero == [num |-> 0, den |-> 1]

Min(a, b) == IF a < b THEN a ELSE b

Max(a, b) == IF a > b THEN a ELSE b

\* ------------------------------------------------------------- loaders
\* len(DataLoader): the number of batches of a dataset of n examples
LoaderLen(n, bs) == (n + bs - 1) \div bs

\* the number of examples of the k-th batch (the last one may be short)
BatchLen(n, bs, k) == Min(bs, n - (k - 1) * bs)

\* a combined loader is a function from bucket to [size, bs]
Loader(n, bs) == [size |-> n, bs |-> bs]

NumBatches(loader) == LoaderLen(loader.size, loader.bs)

DatasetLen(loader) == loader.size

\* "for loader in combined_loader.flattened: n_batches += len(loader)"
RECURSIVE SumBatches(_, _)
SumBatches(loaders, flattened) ==
    IF flattened = <<>> THEN 0
    ELSE NumBatches(loaders[Head(flattened)]) + SumBatches(loaders, Tail(flattened))

\* "for loader in combined_loader.flattened: n_samples += len(loader.dataset)"
RECURSIVE SumSamples(_, _)
SumSamples(loaders, flattened) ==
    IF flattened = <<>> THEN 0
    ELSE DatasetLen(loaders[Head(flattened)]) + SumSamples(loaders, Tail(flattened))

\* the number of outer steps taken for the number of batches
CountOuterSteps(combined_loader) ==
    Max(NumBatches(combined_loader["2s"]),
        Max(NumBatches(combined_loader["3s"]), NumBatches(combined_loader["4s"])))

count_batches_in_combined_loader(combined_loader) ==
    SumBatches(combined_loader, BaseLengths)

\* len(loader) taken for len(loader.dataset)
CountLoaderLens(combined_loader) ==
    SumBatches(combined_loader, BaseLengths)

count_samples_in_combined_loader(combined_loader) ==
    SumSamples(combined_loader, BaseLengths)

\* "min_size" mode: the combined loader stops with its shortest loader
MinSize(combined_loader) ==
    Min(NumBatches(combined_loader["2s"]),
        Min(NumBatches(combined_loader["3s"]), NumBatches(combined_loader["4s"])))

\* the number of outer steps of a combined loader in "max_size" mode
MaxSize(combined_loader) ==
    Max(NumBatches(combined_loader["2s"]),
        Max(NumBatches(combined_loader["3s"]), NumBatches(combined_loader["4s"])))

\* "max_size_cycle" mode: an exhausted loader starts again
NextOfCycle(loader, k) ==
    [k |-> ((k - 1) % NumBatches(loader)) + 1,
     len |-> BatchLen(loader.size, loader.bs, ((k - 1) % NumBatches(loader)) + 1)]

\* what one loader hands to outer step k: its k-th batch, or None once exhausted
NextOf(loader, k) ==
    IF k <= NumBatches(loader)
    THEN [k |-> k, len |-> BatchLen(loader.size, loader.bs, k)]
    ELSE NoBatch

\* the dictionary of batches of outer step k
CombinedBatches(combined_loader, k) ==
    [b \in Buckets |-> NextOf(combined_loader[b], k)]

\* the list left in the order it has
NoShuffle(list) == {list}

\* random.shuffle: every arrangement of the list's elements
Shuffle(list) ==
    {p \in [1..Len(list) -> {list[j] : j \in 1..Len(list)}] :
        \E f \in [1..Len(list) -> 1..Len(list)] :
            /\ \A x, y \in 1..Len(list) : f[x] = f[y] => x = y
            /\ \A j \in 1..Len(list) : p[j] = list[f[j]]}

\* ---------------------------------------------------------------- state
VARIABLES
    \* command line and configuration
    checkpt, start_epoch, config, log_freq, train_loader, val_loader,
    \* main
    pc, t, best_acc, best_epoch, train_loss, val_loss, val_acc, scalars,
    best_file, latest_file,
    \* model and optimizer
    params, training, grads,
    \* locals of the running train or validate call
    n_samples, n_batches, total_loss, n_correct, input_lengths, batch_n,
    step, combined_batches, i, record,
    \* history: what has happened, read by the properties only
    processed, nForward, lossSum, correctSum, visited, ops,
    phaseLog, valAccs, bestWrites, latestWrites, validated

inputs == <<checkpt, start_epoch, config, log_freq, train_loader, val_loader>>

driver == <<t, best_acc, best_epoch, train_loss, val_loss, val_acc, scalars,
            best_file, latest_file>>

net == <<params, training, grads>>

locals == <<n_samples, n_batches, total_loss, n_correct, input_lengths,
            batch_n, step, combined_batches, i, record>>

epochHistory == <<processed, nForward, lossSum, correctSum, visited, ops,
                  validated>>

runHistory == <<phaseLog, valAccs, bestWrites, latestWrites>>

vars == <<inputs, pc, driver, net, locals, epochHistory, runHistory>>

NoRecord == [sample |-> 0, n_samples |-> 0, avg_loss |-> Zero, global_step |-> 0]

\* the locals of train and validate before a call and after its return
NoCall ==
    /\ n_samples' = 0
    /\ n_batches' = 0
    /\ total_loss' = 0
    /\ n_correct' = 0
    /\ input_lengths' = BaseLengths
    /\ batch_n' = 0
    /\ step' = 0
    /\ combined_batches' = [b \in Buckets |-> NoBatch]
    /\ i' = 1
    /\ record' = NoRecord

\* the batches of a combined loader, none of them processed yet
Unprocessed(combined_loader) ==
    [b \in Buckets |-> [k \in 1..NumBatches(combined_loader[b]) |-> 0]]

\* the phase of the epoch driver a control point belongs to
Phase(p) ==
    CASE p \in {"train_for", "train_length", "train_zero_grad",
                "train_backward", "train_step"} -> "Training"
      [] p \in {"validate", "validate_for", "validate_length"} -> "Validating"
      [] p = "checkpoint" -> "Checkpointing"
      [] p = "done" -> "Done"
      [] OTHER -> "Entry"

\* the state after argument parsing and loader construction
InitFull(trainSizes, valSizes, epochs, starts, batchSizes, logFreqs) ==
    /\ checkpt \in BOOLEAN
    /\ start_epoch \in starts
    /\ \E n \in epochs, bs \in batchSizes :
          /\ config = [n_epochs |-> n, batch_size |-> bs]
          /\ \E ts \in trainSizes : train_loader = [b \in Buckets |-> Loader(ts[b], bs)]
          /\ \E vs \in valSizes : val_loader = [b \in Buckets |-> Loader(vs[b], bs)]
    /\ log_freq \in logFreqs
    /\ pc = "main"
    /\ t = 0
    /\ best_acc = Zero
    /\ best_epoch = 0
    /\ train_loss = Zero
    /\ val_loss = Zero
    /\ val_acc = Zero
    /\ scalars = 0 - 1
    /\ best_file = NoFile
    /\ latest_file = NoFile
    /\ params = InitialParams
    /\ training = TRUE
    /\ grads = "none"
    /\ n_samples = 0
    /\ n_batches = 0
    /\ total_loss = 0
    /\ n_correct = 0
    /\ input_lengths = BaseLengths
    /\ batch_n = 0
    /\ step = 0
    /\ combined_batches = [b \in Buckets |-> NoBatch]
    /\ i = 1
    /\ record = NoRecord
    /\ processed = [b \in Buckets |-> <<>>]
    /\ nForward = 0
    /\ lossSum = 0
    /\ correctSum = 0
    /\ visited = <<>>
    /\ ops = <<>>
    /\ phaseLog = <<>>
    /\ valAccs = <<>>
    /\ bestWrites = {}
    /\ latestWrites = {}
    /\ validated = {}

\* the same with the batch sizes and log frequencies of the other runs
InitWith(trainSizes, valSizes, epochs, starts) ==
    InitFull(trainSizes, valSizes, epochs, starts, BatchSizes, LogFreqs)

AllSizes == [Buckets -> 1..MaxSamples]

SmallSizes == {[b \in Buckets |-> IF b = "3s" THEN 2 ELSE 1]}

\* ----------------------------------------------------------------- main
\* the assert of the restored run accepting a starting epoch of 0
ResumeOkFromZero(ckpt, start) == IF ckpt THEN start >= 0 ELSE start = 0

\* the asserts after the optional load_state_dict
ResumeOk(ckpt, start) == IF ckpt THEN start > 0 ELSE start = 0

\* a range that includes its end
InRangeInclusive(epoch, n) == epoch <= n

\* the loop condition of "for t in range(start_epoch, config.n_epochs)"
InRange(epoch, n) == epoch < n

\* the best model saved at every epoch
AlwaysBest(acc, best) == TRUE

\* the best model saved on a tie as well
BestOrTie(acc, best) == acc.num * best.den >= best.num * acc.den

\* "if val_acc > best_acc"
IsBest(acc, best) == Greater(acc, best)

LogPhase(epoch, p) == phaseLog' = Append(phaseLog, <<epoch, Phase(p)>>)

\* best_acc = 0, best_epoch = 0 and the first value of the loop variable
EnterLoop ==
    /\ best_acc' = Zero
    /\ best_epoch' = 0
    /\ t' = start_epoch
    /\ pc' = "for"

\* a checkpoint was named: its weights are loaded, then start_epoch is checked
MainRestore ==
    /\ pc = "main"
    /\ checkpt
    /\ params' = CheckpointParams
    /\ IF ResumeOk(checkpt, start_epoch)
       THEN EnterLoop
       ELSE pc' = "AssertionError" /\ UNCHANGED <<best_acc, best_epoch, t>>
    /\ UNCHANGED <<inputs, train_loss, val_loss, val_acc, scalars, best_file,
                   latest_file, training, grads, locals, epochHistory, runHistory>>

\* no checkpoint was named: start_epoch is checked
MainFresh ==
    /\ pc = "main"
    /\ ~checkpt
    /\ IF ResumeOk(checkpt, start_epoch)
       THEN EnterLoop
       ELSE pc' = "AssertionError" /\ UNCHANGED <<best_acc, best_epoch, t>>
    /\ UNCHANGED <<inputs, train_loss, val_loss, val_acc, scalars, best_file,
                   latest_file, net, locals, epochHistory, runHistory>>

\* the loop variable is in range: train is called and runs up to its loop
TrainBegin ==
    /\ pc = "for"
    /\ InRange(t, config.n_epochs)
    /\ training' = TRUE
    /\ n_samples' = count_samples_in_combined_loader(train_loader)
    /\ n_batches' = count_batches_in_combined_loader(train_loader)
    /\ total_loss' = 0
    /\ input_lengths' = BaseLengths
    /\ batch_n' = 0
    /\ step' = 0
    /\ pc' = "train_for"
    /\ processed' = Unprocessed(train_loader)
    /\ nForward' = 0
    /\ lossSum' = 0
    /\ correctSum' = 0
    /\ visited' = <<>>
    /\ ops' = <<>>
    /\ validated' = {}
    /\ LogPhase(t, "train_for")
    /\ UNCHANGED <<inputs, driver, params, grads, n_correct, combined_batches,
                   i, record, valAccs, bestWrites, latestWrites>>

\* the range is used up: the closing messages
MainDone ==
    /\ pc = "for"
    /\ ~InRange(t, config.n_epochs)
    /\ pc' = "done"
    /\ LogPhase(t, "done")
    /\ UNCHANGED <<inputs, driver, net, locals, epochHistory, valAccs,
                   bestWrites, latestWrites>>

\* --------------------------------------------------------------- train
\* where train goes after the forward pass and the loss accumulation
AfterForward == "train_zero_grad"

AfterZeroGrad == "train_backward"

AfterBackward == "train_step"

\* optimizer.step(): the parameters after one more update
OptimizerStep(p) == [p EXCEPT !.steps = p.steps + 1]

\* "for combined_batches in dataloader": the next outer step, and the shuffle
TrainNext ==
    /\ pc = "train_for"
    /\ step < MaxSize(train_loader)
    /\ step' = step + 1
    /\ combined_batches' = CombinedBatches(train_loader, step + 1)
    /\ input_lengths' \in Shuffle(input_lengths)
    /\ i' = 1
    /\ visited' = <<>>
    /\ pc' = "train_length"
    /\ UNCHANGED <<inputs, driver, net, n_samples, n_batches, total_loss,
                   n_correct, batch_n, record, processed, nForward, lossSum,
                   correctSum, ops, validated, runHistory>>

\* "if combined_batches[length] is None: continue"
TrainSkip ==
    /\ pc = "train_length"
    /\ i <= Len(input_lengths)
    /\ combined_batches[input_lengths[i]] = NoBatch
    /\ i' = i + 1
    /\ UNCHANGED <<inputs, pc, driver, net, n_samples, n_batches, total_loss,
                   n_correct, input_lengths, batch_n, step, combined_batches,
                   record, epochHistory, runHistory>>

\* the forward pass, the loss and its accumulation
TrainForward ==
    /\ pc = "train_length"
    /\ i <= Len(input_lengths)
    /\ combined_batches[input_lengths[i]] # NoBatch
    /\ \E loss \in Losses :
          /\ total_loss' = total_loss + loss
          /\ lossSum' = lossSum + loss
    /\ nForward' = nForward + 1
    /\ processed' = [processed EXCEPT
                       ![input_lengths[i]][combined_batches[input_lengths[i]].k] = @ + 1]
    /\ visited' = Append(visited, input_lengths[i])
    /\ ops' = <<"forward">>
    /\ pc' = AfterForward
    /\ UNCHANGED <<inputs, driver, net, n_samples, n_batches, n_correct,
                   input_lengths, batch_n, step, combined_batches, i, record,
                   correctSum, validated, runHistory>>

\* optimizer.zero_grad()
TrainZeroGrad ==
    /\ pc = "train_zero_grad"
    /\ grads' = "zero"
    /\ ops' = Append(ops, "zero_grad")
    /\ pc' = AfterZeroGrad
    /\ UNCHANGED <<inputs, driver, params, training, locals, processed,
                   nForward, lossSum, correctSum, visited, validated, runHistory>>

\* loss.backward()
TrainBackward ==
    /\ pc = "train_backward"
    /\ grads' = "computed"
    /\ ops' = Append(ops, "backward")
    /\ pc' = AfterBackward
    /\ UNCHANGED <<inputs, driver, params, training, locals, processed,
                   nForward, lossSum, correctSum, visited, validated, runHistory>>

\* the progress record of a batch: emitted when batch_n is a multiple of log_freq
Progress(X) ==
    [sample |-> batch_n * X.len,
     n_samples |-> n_samples,
     avg_loss |-> Div(total_loss, batch_n),
     global_step |-> t * n_samples + batch_n * X.len]

\* optimizer.step(), the progress record and the batch counter
TrainStep ==
    /\ pc = "train_step"
    /\ params' = OptimizerStep(params)
    /\ ops' = Append(ops, "step")
    /\ record' = IF batch_n # 0 /\ batch_n % log_freq = 0
                 THEN Progress(combined_batches[input_lengths[i]])
                 ELSE record
    /\ batch_n' = batch_n + 1
    /\ i' = i + 1
    /\ pc' = "train_length"
    /\ UNCHANGED <<inputs, driver, training, grads, n_samples, n_batches,
                   total_loss, n_correct, input_lengths, step, combined_batches,
                   processed, nForward, lossSum, correctSum, visited, validated,
                   runHistory>>

\* the inner loop over input_lengths is finished
TrainEndStep ==
    /\ pc = "train_length"
    /\ i > Len(input_lengths)
    /\ pc' = "train_for"
    /\ UNCHANGED <<inputs, driver, net, locals, epochHistory, runHistory>>

\* the combined loader is exhausted: train returns the average loss
TrainReturn ==
    /\ pc = "train_for"
    /\ step >= MaxSize(train_loader)
    /\ train_loss' = Div(total_loss, n_batches)
    /\ NoCall
    /\ pc' = "validate"
    /\ LogPhase(t, "validate")
    /\ UNCHANGED <<inputs, t, best_acc, best_epoch, val_loss, val_acc, scalars,
                   best_file, latest_file, net, epochHistory, valAccs,
                   bestWrites, latestWrites>>

\* ------------------------------------------------------------ validate
\* validate applying an update for each batch, as train does
EvalAndStep(p) == [p EXCEPT !.steps = p.steps + 1]

\* what validate does to the parameters: under torch.no_grad(), no optimizer
EvalOnly(p) == p

\* validate is called and runs up to its loop
ValidateBegin ==
    /\ pc = "validate"
    /\ n_samples' = count_samples_in_combined_loader(val_loader)
    /\ n_batches' = count_batches_in_combined_loader(val_loader)
    /\ training' = FALSE
    /\ total_loss' = 0
    /\ n_correct' = 0
    /\ input_lengths' = BaseLengths
    /\ step' = 0
    /\ pc' = "validate_for"
    /\ processed' = Unprocessed(val_loader)
    /\ nForward' = 0
    /\ lossSum' = 0
    /\ correctSum' = 0
    /\ visited' = <<>>
    /\ UNCHANGED <<inputs, driver, params, grads, batch_n, combined_batches, i,
                   record, ops, validated, runHistory>>

\* "for combined_batches in dataloader": the next outer step
ValidateNext ==
    /\ pc = "validate_for"
    /\ step < MaxSize(val_loader)
    /\ step' = step + 1
    /\ combined_batches' = CombinedBatches(val_loader, step + 1)
    /\ i' = 1
    /\ visited' = <<>>
    /\ pc' = "validate_length"
    /\ UNCHANGED <<inputs, driver, net, n_samples, n_batches, total_loss,
                   n_correct, input_lengths, batch_n, record, processed,
                   nForward, lossSum, correctSum, ops, validated, runHistory>>

\* "if combined_batches[length] is None: continue"
ValidateSkip ==
    /\ pc = "validate_length"
    /\ i <= Len(input_lengths)
    /\ combined_batches[input_lengths[i]] = NoBatch
    /\ i' = i + 1
    /\ UNCHANGED <<inputs, pc, driver, net, n_samples, n_batches, total_loss,
                   n_correct, input_lengths, batch_n, step, combined_batches,
                   record, epochHistory, runHistory>>

\* the forward pass, the loss and the count of correct predictions
ValidateForward ==
    /\ pc = "validate_length"
    /\ i <= Len(input_lengths)
    /\ combined_batches[input_lengths[i]] # NoBatch
    /\ \E loss \in Losses :
          /\ total_loss' = total_loss + loss
          /\ lossSum' = lossSum + loss
    /\ \E correct \in 0..combined_batches[input_lengths[i]].len :
          /\ n_correct' = n_correct + correct
          /\ correctSum' = correctSum + correct
    /\ params' = EvalOnly(params)
    /\ validated' = validated \cup {params}
    /\ nForward' = nForward + 1
    /\ processed' = [processed EXCEPT
                       ![input_lengths[i]][combined_batches[input_lengths[i]].k] = @ + 1]
    /\ visited' = Append(visited, input_lengths[i])
    /\ i' = i + 1
    /\ UNCHANGED <<inputs, pc, driver, training, grads, n_samples, n_batches,
                   input_lengths, batch_n, step, combined_batches, record, ops,
                   runHistory>>

\* the inner loop over input_lengths is finished
ValidateEndStep ==
    /\ pc = "validate_length"
    /\ i > Len(input_lengths)
    /\ pc' = "validate_for"
    /\ UNCHANGED <<inputs, driver, net, locals, epochHistory, runHistory>>

\* the combined loader is exhausted: validate returns average loss and accuracy
ValidateReturn ==
    /\ pc = "validate_for"
    /\ step >= MaxSize(val_loader)
    /\ val_loss' = Div(total_loss, n_batches)
    /\ val_acc' = Times(Div(n_correct, n_samples), 100)
    /\ NoCall
    /\ pc' = "checkpoint"
    /\ LogPhase(t, "checkpoint")
    /\ UNCHANGED <<inputs, t, best_acc, best_epoch, train_loss, scalars,
                   best_file, latest_file, net, epochHistory, valAccs,
                   bestWrites, latestWrites>>

\* ---------------------------------------------------------- checkpoint
\* the metrics, the best model, the latest model, and the next loop value.
\* Of the metrics handed to the TensorBoard writer only the step index is kept.
\* train_loss, val_loss and val_acc are assigned again before the next
\* iteration reads them: they are cleared here.
Checkpoint ==
    /\ pc = "checkpoint"
    /\ scalars' = t
    /\ IF IsBest(val_acc, best_acc)
       THEN /\ best_acc' = val_acc
            /\ best_epoch' = t
            /\ best_file' = params
            /\ bestWrites' = bestWrites \cup {t}
       ELSE UNCHANGED <<best_acc, best_epoch, best_file, bestWrites>>
    /\ latest_file' = params
    /\ latestWrites' = latestWrites \cup {t}
    /\ valAccs' = Append(valAccs, val_acc)
    /\ t' = t + 1
    /\ train_loss' = Zero
    /\ val_loss' = Zero
    /\ val_acc' = Zero
    /\ pc' = "for"
    /\ UNCHANGED <<inputs, net, locals, epochHistory, phaseLog>>

\* ------------------------------------------------------ specifications
Next ==
    \/ MainRestore
    \/ MainFresh
    \/ TrainBegin
    \/ MainDone
    \/ TrainNext
    \/ TrainSkip
    \/ TrainForward
    \/ TrainZeroGrad
    \/ TrainBackward
    \/ TrainStep
    \/ TrainEndStep
    \/ TrainReturn
    \/ ValidateBegin
    \/ ValidateNext
    \/ ValidateSkip
    \/ ValidateForward
    \/ ValidateEndStep
    \/ ValidateReturn
    \/ Checkpoint

\* whole runs of the epoch driver over small datasets
Init == InitWith(SmallSizes, SmallSizes, 0..MaxEpochs, (0 - 1)..MaxEpochs)

Spec == Init /\ [][Next]_vars

\* the same runs, where a step that can be taken is eventually taken
LiveSpec == Spec /\ WF_vars(Next)

\* one epoch over every combination of dataset sizes of the three buckets
EpochInit ==
    \/ InitWith(AllSizes, SmallSizes, {1}, {0, 1})
    \/ InitWith(SmallSizes, AllSizes, {1}, {0, 1})

EpochSpec == EpochInit /\ [][Next]_vars

\* one epoch of training over every combination of dataset sizes, with batch
\* sizes up to 3 and a progress record at every batch or every second batch
RecordInit == InitFull(AllSizes, SmallSizes, {1}, {0, 1}, {1, 2, 3}, {1, 2})

RecordSpec == RecordInit /\ [][Next]_vars

\* ============================================================== claims
\* the static counts of a combined loader, written out bucket by bucket
StaticBatches(L) ==
    NumBatches(L["2s"]) + NumBatches(L["3s"]) + NumBatches(L["4s"])

StaticSamples(L) == L["2s"].size + L["3s"].size + L["4s"].size

\* every batch of every loader of L has been processed exactly once
Consumed(L) ==
    /\ nForward = StaticBatches(L)
    /\ \A b \in Buckets :
          /\ DOMAIN processed[b] = 1..NumBatches(L[b])
          /\ \A k \in 1..NumBatches(L[b]) : processed[b][k] = 1

\* C1: one call of train, and one call of validate, processes every batch of
\* every bucket exactly once, n1+n2+n3 batches in all, whatever the shuffles:
\* no batch is ever processed twice, and at the return of the call none is left.
C1_EveryBatchOnce ==
    /\ \A b \in Buckets : \A k \in DOMAIN processed[b] : processed[b][k] <= 1
    /\ pc = "validate" => Consumed(train_loader)
    /\ pc = "checkpoint" => Consumed(val_loader)

\* train has returned from loaders of 3, 1 and 2 batches, 6 batches processed
C1_Witness ==
    /\ pc = "validate"
    /\ NumBatches(train_loader["2s"]) = 3
    /\ NumBatches(train_loader["3s"]) = 1
    /\ NumBatches(train_loader["4s"]) = 2
    /\ nForward = 6

\* C2: the average loss returned by train and by validate is the sum of the
\* losses of the processed batches over the static batch count, and that
\* count is the number of forward passes performed.
C2_AverageLoss ==
    /\ pc = "validate" =>
          /\ train_loss.num = lossSum
          /\ train_loss.den = StaticBatches(train_loader)
          /\ train_loss.den = nForward
    /\ pc = "checkpoint" =>
          /\ val_loss.num = lossSum
          /\ val_loss.den = StaticBatches(val_loader)
          /\ val_loss.den = nForward

\* validate has returned from loaders of 1, 3 and 2 batches with mixed losses
C2_Witness ==
    /\ pc = "checkpoint"
    /\ NumBatches(val_loader["2s"]) = 1
    /\ NumBatches(val_loader["3s"]) = 3
    /\ NumBatches(val_loader["4s"]) = 2
    /\ val_loss = Div(9, 6)

\* C3: the accuracy returned by validate is 100 times the correct
\* predictions of all processed batches over the static sample count of the
\* validation loaders, and lies between 0 and 100.
C3_Accuracy ==
    pc = "checkpoint" =>
        /\ val_acc.num = 100 * correctSum
        /\ val_acc.den = StaticSamples(val_loader)
        /\ val_acc.num >= 0
        /\ val_acc.num <= 100 * val_acc.den

\* validate has returned from loaders with a short last batch, some of the
\* examples right and some wrong
C3_Witness ==
    /\ pc = "checkpoint"
    /\ config.batch_size = 2
    /\ val_loader["2s"].size = 3
    /\ val_loader["3s"].size = 1
    /\ val_loader["4s"].size = 2
    /\ val_acc = Div(400, 6)

\* the largest of 0 and the first n accuracies of a sequence
RECURSIVE BestOf(_, _)
BestOf(accs, n) ==
    IF n = 0 THEN Zero
    ELSE IF Greater(accs[n], BestOf(accs, n - 1)) THEN accs[n]
    ELSE BestOf(accs, n - 1)

\* the epoch whose validation accuracy is the j-th of this run
EpochOf(j) == start_epoch + j - 1

\* C4: the best snapshot is written at an epoch exactly when its validation
\* accuracy strictly exceeds the best of the run so far (0 at first), and the
\* latest snapshot is written at every epoch.
C4_BestAndLatestWrites ==
    /\ bestWrites = {EpochOf(j) : j \in {k \in 1..Len(valAccs) :
                        Greater(valAccs[k], BestOf(valAccs, k - 1))}}
    /\ latestWrites = {EpochOf(j) : j \in 1..Len(valAccs)}

\* three epochs, the accuracy going up, down, and above the first: best is
\* written at the first and third, latest at all three
C4_Witness ==
    /\ Len(valAccs) = 3
    /\ Greater(valAccs[1], Zero)
    /\ Greater(valAccs[1], valAccs[2])
    /\ Greater(valAccs[3], valAccs[1])
    /\ bestWrites = {EpochOf(1), EpochOf(3)}
    /\ latestWrites = {EpochOf(1), EpochOf(2), EpochOf(3)}

\* something of an epoch has happened: a phase, a forward pass, a write
EpochWork ==
    \/ phaseLog # <<>>
    \/ nForward # 0
    \/ params.steps # 0
    \/ validated # {}
    \/ valAccs # <<>>
    \/ bestWrites # {}
    \/ latestWrites # {}
    \/ best_file # NoFile
    \/ latest_file # NoFile

\* C5: past its entry the driver has failed exactly when a snapshot came with
\* a starting epoch <= 0 or no snapshot came with a starting epoch other than
\* 0; a failed run has done no training step, no validation step and no
\* checkpoint write and does nothing more, and nothing of the kind happens
\* before the check.
C5_ResumePrecondition ==
    /\ pc # "main" =>
          (pc = "AssertionError" <=>
              \/ checkpt /\ start_epoch <= 0
              \/ ~checkpt /\ start_epoch # 0)
    /\ pc \in {"main", "AssertionError"} => ~EpochWork
    /\ pc = "AssertionError" => ~ENABLED Next

\* the driver failed on a snapshot with starting epoch 0
C5_Witness ==
    /\ pc = "AssertionError"
    /\ checkpt
    /\ start_epoch = 0

\* the first of the first n accuracies to attain their maximum, 0 if none does
RECURSIVE FirstBest(_, _)
FirstBest(accs, n) ==
    IF n = 0 THEN 0
    ELSE IF Greater(accs[n], BestOf(accs, n - 1)) THEN n
    ELSE FirstBest(accs, n - 1)

\* C8: the recorded best accuracy never decreases; it is the largest of 0 and
\* the validation accuracies of the epochs completed in this run, and the
\* recorded best epoch is the earliest epoch with that accuracy (0, the
\* initial value, if no accuracy exceeded 0).
C8_BestMonotone ==
    /\ [][~Greater(best_acc, best_acc')]_vars
    /\ [](/\ Same(best_acc, BestOf(valAccs, Len(valAccs)))
          /\ \A j \in 1..Len(valAccs) : ~Greater(valAccs[j], best_acc)
          /\ \/ /\ Same(best_acc, Zero)
                /\ best_epoch = 0
             \/ \E j \in 1..Len(valAccs) :
                   /\ best_epoch = EpochOf(j)
                   /\ Same(valAccs[j], best_acc)
                   /\ \A k \in 1..(j - 1) : Greater(best_acc, valAccs[k]))

\* two epochs of a run resumed at epoch 1, both with the same accuracy above
\* 0: the best epoch is the first of them
C8_Witness ==
    /\ Len(valAccs) = 2
    /\ start_epoch = 1
    /\ Greater(valAccs[1], Zero)
    /\ Same(valAccs[2], valAccs[1])
    /\ best_epoch = 1
    /\ Same(best_acc, valAccs[1])

\* the loader the running call iterates
Running == IF Phase(pc) = "Training" THEN train_loader ELSE val_loader

InStep == pc \in {"train_length", "train_zero_grad", "train_backward",
                  "train_step", "validate_length"}

\* the inner loop stands at a bucket that is absent at this outer step
AtAbsent ==
    /\ pc \in {"train_length", "validate_length"}
    /\ i <= 3
    /\ step > NumBatches(Running[input_lengths[i]])

\* C6: a loader of n batches supplies its k-th batch at outer step k <= n and
\* None at every later outer step; the outer steps end with the longest
\* loader; and the step of the inner loop at an absent bucket changes neither
\* the running loss, nor the batch counter, nor the correct count, nor the
\* parameters, nor the batches processed.
C6_ExhaustionSentinel ==
    /\ [](InStep =>
            /\ step \in 1..Max(NumBatches(Running["2s"]),
                               Max(NumBatches(Running["3s"]), NumBatches(Running["4s"])))
            /\ \A b \in Buckets :
                  IF step <= NumBatches(Running[b])
                  THEN /\ combined_batches[b] # NoBatch
                       /\ combined_batches[b].k = step
                  ELSE combined_batches[b] = NoBatch)
    /\ [](pc \in {"train_for", "validate_for"} =>
            /\ ENABLED (TrainNext \/ ValidateNext) <=>
                  \E b \in Buckets : step < NumBatches(Running[b])
            /\ ENABLED (TrainReturn \/ ValidateReturn) <=>
                  \A b \in Buckets : step >= NumBatches(Running[b]))
    /\ [][AtAbsent => /\ i' = i + 1
                      /\ UNCHANGED <<pc, total_loss, batch_n, n_correct, params,
                                     grads, nForward, processed, lossSum,
                                     correctSum, visited>>]_vars

\* train stands at the absent 1-batch bucket "2s" at outer step 3 of 3, next
\* to the 3-batch bucket "3s"
C6_Witness ==
    /\ pc = "train_length"
    /\ step = 3
    /\ NumBatches(train_loader["2s"]) = 1
    /\ NumBatches(train_loader["3s"]) = 3
    /\ i = 2
    /\ input_lengths[1] = "2s"
    /\ combined_batches["2s"] = NoBatch
    /\ processed["2s"] = <<1>>

\* the driver's log of phases for starting epoch s and epoch count n
RECURSIVE Cycles(_, _)
Cycles(s, n) ==
    IF s >= n THEN <<>>
    ELSE <<<<s, "Training">>, <<s, "Validating">>, <<s, "Checkpointing">>>>
             \o Cycles(s + 1, n)

IsPrefix(a, b) == Len(a) <= Len(b) /\ SubSeq(b, 1, Len(a)) = a

\* C7: from starting epoch s with n epochs configured the driver runs the
\* cycles Training, Validating, Checkpointing of the epochs s, s+1, ..., n-1
\* in this order and no other phase, max(0, n-s) cycles in all; an epoch
\* starts only when the snapshot of the one before is written; and a driver
\* that passed its entry check reaches Done.
C7_EpochCycles ==
    /\ [](pc \notin {"done"} =>
             IsPrefix(phaseLog, Cycles(start_epoch, config.n_epochs)))
    /\ [](pc = "done" =>
             /\ phaseLog = Cycles(start_epoch, config.n_epochs)
                              \o <<<<Max(start_epoch, config.n_epochs), "Done">>>>
             /\ Len(valAccs) = Max(0, config.n_epochs - start_epoch)
             /\ Len(phaseLog) = 3 * Max(0, config.n_epochs - start_epoch) + 1)
    /\ [](\A j \in 1..Len(phaseLog) :
             phaseLog[j][2] = "Training" /\ phaseLog[j][1] > start_epoch =>
                 phaseLog[j][1] - 1 \in latestWrites)
    /\ [](Phase(pc) # "Entry" /\ pc # "done" =>
             phaseLog # <<>> /\ phaseLog[Len(phaseLog)] = <<t, Phase(pc)>>)
    /\ (pc = "for" ~> pc = "done")

\* a run resumed at epoch 1 of 3 is done after the cycles of epochs 1 and 2
C7_Witness ==
    /\ pc = "done"
    /\ start_epoch = 1
    /\ config.n_epochs = 3
    /\ Len(phaseLog) = 7
    /\ phaseLog[4] = <<2, "Training">>

\* the six orders of the three bucket identifiers
AllOrders ==
    {<<"2s", "3s", "4s">>, <<"2s", "4s", "3s">>, <<"3s", "2s", "4s">>,
     <<"3s", "4s", "2s">>, <<"4s", "2s", "3s">>, <<"4s", "3s", "2s">>}

\* the buckets among the first n of the order that have a batch at this step
RECURSIVE AvailableIn(_, _)
AvailableIn(order, n) ==
    IF n = 0 THEN <<>>
    ELSE IF step <= NumBatches(train_loader[order[n]])
         THEN Append(AvailableIn(order, n - 1), order[n])
         ELSE AvailableIn(order, n - 1)

\* C9: in train every outer step can take each of the six orders of the
\* bucket identifiers, whatever the order of the step before; the list
\* iterated always holds exactly 2s, 3s and 4s; and within a step the buckets
\* that still have a batch are processed once each, in the order of the list.
C9_FreshOrderEveryStep ==
    /\ pc = "train_for" /\ step < MaxSize(train_loader) =>
          \A order \in AllOrders : ENABLED (TrainNext /\ input_lengths' = order)
    /\ Phase(pc) = "Training" =>
          /\ input_lengths \in AllOrders
          /\ {input_lengths[j] : j \in 1..Len(input_lengths)} = Buckets
    /\ pc = "train_length" => visited = AvailableIn(input_lengths, i - 1)
    /\ pc \in {"train_zero_grad", "train_backward", "train_step"} =>
          visited = AvailableIn(input_lengths, i)

\* the second outer step of train is finished in the order 4s, 2s, 3s, after
\* a first step in another order (3s went first), 2s being exhausted
C9_Witness ==
    /\ pc = "train_length"
    /\ step = 2
    /\ i = 4
    /\ input_lengths = <<"4s", "2s", "3s">>
    /\ visited = <<"4s", "3s">>
    /\ NumBatches(train_loader["2s"]) = 1
    /\ batch_n = 5

\* the optimizer steps applied when the running epoch's training began
StepsBefore == (t - start_epoch) * StaticBatches(train_loader)

MidBatch == pc \in {"train_zero_grad", "train_backward", "train_step"}

\* C10: once the epoch loop runs, the parameters change only by the optimizer
\* step of train, one update per processed batch, after the forward pass,
\* zero_grad and backward in this order; validate runs in evaluation mode and
\* with Checkpointing leaves the parameters as training left them, and the
\* snapshots written at an epoch hold the parameters that epoch validated.
C10_OnlyOptimizerStepUpdates ==
    /\ [][pc # "main" /\ params' # params =>
             /\ pc = "train_step"
             /\ ops = <<"forward", "zero_grad", "backward">>
             /\ grads = "computed"
             /\ params' = [params EXCEPT !.steps = @ + 1]]_vars
    /\ [](Phase(pc) = "Training" =>
             /\ params.steps = StepsBefore + nForward - (IF MidBatch THEN 1 ELSE 0)
             /\ training
             /\ pc = "train_length" /\ nForward > 0 =>
                   ops = <<"forward", "zero_grad", "backward", "step">>)
    /\ [](Phase(pc) \in {"Validating", "Checkpointing"} =>
             /\ params.steps = StepsBefore + StaticBatches(train_loader)
             /\ validated \subseteq {params}
             /\ pc \in {"validate_for", "validate_length"} => ~training)
    /\ [][pc = "checkpoint" /\ pc' # pc =>
             /\ validated = {params}
             /\ params' = params
             /\ latest_file' = params
             /\ t \in bestWrites' => best_file' = params]_vars

\* the second epoch's snapshot is written: it holds the parameters after two
\* epochs of updates, which are the ones validated
C10_Witness ==
    /\ pc = "for"
    /\ Len(valAccs) = 2
    /\ start_epoch = 0
    /\ params.steps = 2 * StaticBatches(train_loader)
    /\ latest_file = params
    /\ validated = {params}
    /\ best_file # NoFile
    /\ best_file # latest_file

\* the step of train that emits a progress record
Emits ==
    /\ pc = "train_step"
    /\ batch_n # 0
    /\ batch_n % log_freq = 0

\* C11: every progress record emitted by train carries the running-average
\* loss: the running total of the losses at the emission over the number of
\* batches processed so far, the ones whose loss is in that total.
C11_RecordRunningAverage ==
    [][Emits => /\ record'.avg_loss.num = lossSum
                /\ record'.avg_loss.den = nForward]_vars

\* the examples of the first n batches of a bucket that have been processed
RECURSIVE SamplesOf(_, _)
SamplesOf(b, n) ==
    IF n = 0 THEN 0
    ELSE processed[b][n] * BatchLen(train_loader[b].size, train_loader[b].bs, n)
            + SamplesOf(b, n - 1)

\* the examples of all the batches train has processed so far in the epoch
ProcessedSamples ==
    SamplesOf("2s", Len(processed["2s"])) + SamplesOf("3s", Len(processed["3s"]))
        + SamplesOf("4s", Len(processed["4s"]))

\* C12: every progress record emitted by train carries the number of examples
\* processed so far, the sum of the sizes of the batches processed in the
\* epoch, which never exceeds the static total reported with it.
C12_RecordSampleCount ==
    [][Emits => /\ record'.sample = ProcessedSamples
                /\ record'.sample <= record'.n_samples
                /\ record'.n_samples = StaticSamples(train_loader)]_vars

====
